---- MODULE Spec2Model ----
(***************************************************************************)
(* bitFlyer Lightning API client (package bitflyer, bitflyer.go).          *)
(*                                                                         *)
(* The client is modelled as a state machine: a client value built by New, *)
(* a wall clock, and a set of calls in progress.  Each typed call          *)
(* (GetOrderBook, GetBalance, GetTicker, NewOrder) signs its request in    *)
(* headers(), builds it in doRequest, hands it to the HTTP transport,      *)
(* reads the body and decodes it with json.Unmarshal.                      *)
(*                                                                         *)
(* Byte strings that hold JSON are modelled by their syntax tree ("docs"); *)
(* Text renders a doc to the text json.Marshal writes, which is what gets  *)
(* concatenated into the signed message.  HMAC-SHA256 is modelled as an    *)
(* ideal keyed hash: a term over (secret, message), equal only for equal   *)
(* arguments.                                                              *)
(***************************************************************************)
EXTENDS Integers, Sequences, FiniteSets, TLC

VARIABLES api, now, calls, signed

vars == <<api, now, calls, signed>>

(***************************************************************************)
(* Bounds of the model.                                                    *)
(***************************************************************************)
ClockStart == 9      \* unix time at which the model starts
MaxTicks == 1        \* seconds the clock may advance
NumCalls == 2        \* calls in flight at once in the concurrent specification
MaxSigned == 2       \* header sets compared in the signing specification

(***************************************************************************)
(* Package constants.                                                      *)
(***************************************************************************)
URL == "https://api.bitflyer.jp"
minuteToExpire == 525600
timeInForce == "GTC"

(***************************************************************************)
(* Go values.  A float64 is a record so that NaN can be told apart from a  *)
(* number; a struct is a function from its Go field names.                 *)
(***************************************************************************)
F(v) == [nan |-> FALSE, v |-> v]
NaN == [nan |-> TRUE, v |-> 0]

TString == [k |-> "string"]
TInt == [k |-> "int"]
TFloat == [k |-> "float"]
TStruct(fields) == [k |-> "struct", fields |-> fields]
TSlice(elem) == [k |-> "slice", elem |-> elem]

Field(go, json, type) == [go |-> go, json |-> json, type |-> type]

AskBid ==
  TStruct(<< Field("Price", "price", TFloat),
             Field("Size", "size", TFloat) >>)

OrderBook ==
  TStruct(<< Field("MidPrice", "mid_price", TFloat),
             Field("Bids", "bids", TSlice(AskBid)),
             Field("Asks", "asks", TSlice(AskBid)) >>)

Balance ==
  TStruct(<< Field("CurrencyCode", "currency_code", TString),
             Field("Amount", "amount", TFloat),
             Field("Available", "available", TFloat) >>)

\* AssetBalance as a struct around the list, as the first versions had it.
AssetBalanceStruct ==
  TStruct(<< Field("Balances", "balances", TSlice(Balance)) >>)

AssetBalance == TSlice(Balance)

Ticker ==
  TStruct(<< Field("ProductCode", "product_code", TString),
             Field("Timestamp", "timestamp", TString),
             Field("TickID", "tick_id", TInt),
             Field("BestBid", "best_bid", TFloat),
             Field("BestAsk", "best_ask", TFloat),
             Field("BestBidSize", "best_bid_size", TFloat),
             Field("BestAskSize", "best_ask_size", TFloat),
             Field("TotalBidDepth", "total_bid_depth", TFloat),
             Field("TotalAskDepth", "total_ask_depth", TFloat),
             Field("LTP", "ltp", TFloat),
             Field("Volume", "volume", TFloat),
             Field("VolumeByProduct", "volume_by_product", TFloat) >>)

Order ==
  TStruct(<< Field("ChildOrderAcceptanceID", "child_order_acceptance_id", TString),
             Field("ProductCode", "product_code", TString),
             Field("ChildOrderType", "child_order_type", TString),
             Field("Side", "side", TString),
             Field("Price", "price", TFloat),
             Field("Size", "size", TFloat),
             Field("MinuteToExpires", "minute_to_expire", TInt),
             Field("TimeInForce", "time_in_force", TString),
             Field("Status", "status", TInt),
             Field("ErrorMessage", "error_message", TString) >>)

\* The zero value of a Go type.
RECURSIVE Zero(_)
Zero(ty) ==
  CASE ty.k = "string" -> ""
    [] ty.k = "int" -> 0
    [] ty.k = "float" -> F(0)
    [] ty.k = "slice" -> <<>>
    [] ty.k = "struct" ->
         [g \in {ty.fields[i].go : i \in DOMAIN ty.fields} |->
            Zero(ty.fields[CHOOSE i \in DOMAIN ty.fields : ty.fields[i].go = g].type)]

(***************************************************************************)
(* JSON documents: the content of a []byte.                                *)
(***************************************************************************)
Str(s) == [t |-> "string", s |-> s]
Num(n) == [t |-> "number", n |-> n]
Null == [t |-> "null"]
Arr(elems) == [t |-> "array", elems |-> elems]
Obj(members) == [t |-> "object", members |-> members]
EmptyBytes == [t |-> "empty"]         \* []byte("")
Malformed == [t |-> "malformed"]      \* bytes that are not JSON

\* string(body): the text of a request body.  Request bodies are either empty
\* or the object json.Marshal writes for an Order, whose members are strings
\* and numbers (the strings of the model need no escaping).
RECURSIVE TextMembers(_)
TextValue(v) ==
  CASE v.t = "string" -> "\"" \o v.s \o "\""
    [] v.t = "number" -> ToString(v.n)
    [] v.t = "null" -> "null"

TextMembers(members) ==
  IF Len(members) = 0 THEN ""
  ELSE "\"" \o Head(members)[1] \o "\":" \o TextValue(Head(members)[2])
       \o (IF Len(members) = 1 THEN "" ELSE "," \o TextMembers(Tail(members)))

Text(doc) ==
  CASE doc.t = "empty" -> ""
    [] doc.t = "object" -> "{" \o TextMembers(doc.members) \o "}"

(***************************************************************************)
(* Go errors: the dynamic type and the message.                            *)
(***************************************************************************)
nil == [type |-> "nil", msg |-> ""]
errorsNew(msg) == [type |-> "*errors.errorString", msg |-> msg]
SyntaxError == [type |-> "*json.SyntaxError", msg |-> "invalid JSON"]
UnmarshalTypeError ==
  [type |-> "*json.UnmarshalTypeError", msg |-> "json: cannot unmarshal"]
UnsupportedValueError ==
  [type |-> "*json.UnsupportedValueError", msg |-> "json: unsupported value: NaN"]

\* fmt.Errorf without %w returns a plain error string.
requestError(err) == errorsNew("Could not execute request! (" \o err \o ")")

(***************************************************************************)
(* encoding/json as the client uses it.                                    *)
(***************************************************************************)
EncodeField(ty, v) ==
  CASE ty.k = "string" -> Str(v)
    [] ty.k = "int" -> Num(v)
    [] ty.k = "float" -> Num(v.v)

\* json.Marshal of a struct of strings, ints and floats: every field, in
\* declaration order, under its tag; NaN is an unsupported value.
Marshal(ty, v) ==
  IF \E i \in DOMAIN ty.fields :
       ty.fields[i].type.k = "float" /\ v[ty.fields[i].go].nan
  THEN [err |-> UnsupportedValueError, data |-> EmptyBytes]
  ELSE [err |-> nil,
        data |-> Obj([i \in DOMAIN ty.fields |->
                       <<ty.fields[i].json,
                         EncodeField(ty.fields[i].type, v[ty.fields[i].go])>>])]

DecodeOk(val) == [bad |-> FALSE, val |-> val]
DecodeBad(val) == [bad |-> TRUE, val |-> val]

\* json.Unmarshal's walk over a valid document.  null leaves the target as it
\* is (a slice becomes nil); an object member without a field is skipped; a
\* value of the wrong JSON type is skipped and reported once the walk ends;
\* fields the document does not name keep the value they had.
RECURSIVE DecodeValue(_, _, _), DecodeMembers(_, _, _), DecodeElems(_, _)
DecodeValue(ty, cur, v) ==
  IF v.t = "null" THEN DecodeOk(IF ty.k = "slice" THEN <<>> ELSE cur)
  ELSE CASE ty.k = "string" ->
              IF v.t = "string" THEN DecodeOk(v.s) ELSE DecodeBad(cur)
         [] ty.k = "int" ->
              IF v.t = "number" THEN DecodeOk(v.n) ELSE DecodeBad(cur)
         [] ty.k = "float" ->
              IF v.t = "number" THEN DecodeOk(F(v.n)) ELSE DecodeBad(cur)
         [] ty.k = "slice" ->
              IF v.t = "array" THEN DecodeElems(ty.elem, v.elems)
              ELSE DecodeBad(cur)
         [] ty.k = "struct" ->
              IF v.t = "object" THEN DecodeMembers(ty.fields, cur, v.members)
              ELSE DecodeBad(cur)

DecodeMembers(fields, cur, members) ==
  IF Len(members) = 0 THEN DecodeOk(cur)
  ELSE LET m == Head(members)
           hit == {i \in DOMAIN fields : fields[i].json = m[1]}
       IN IF hit = {} THEN DecodeMembers(fields, cur, Tail(members))
          ELSE LET f == fields[CHOOSE i \in hit : TRUE]
                   r == DecodeValue(f.type, cur[f.go], m[2])
                   rest == DecodeMembers(fields, [cur EXCEPT ![f.go] = r.val],
                                         Tail(members))
               IN [bad |-> r.bad \/ rest.bad, val |-> rest.val]

DecodeElems(elem, elems) ==
  IF Len(elems) = 0 THEN DecodeOk(<<>>)
  ELSE LET r == DecodeValue(elem, Zero(elem), Head(elems))
           rest == DecodeElems(elem, Tail(elems))
       IN [bad |-> r.bad \/ rest.bad, val |-> <<r.val>> \o rest.val]

\* json.Unmarshal(data, &cur): the error and the value cur holds afterwards.
Unmarshal(data, ty, cur) ==
  IF data.t \in {"empty", "malformed"}
  THEN [err |-> SyntaxError, val |-> cur]
  ELSE LET r == DecodeValue(ty, cur, data)
       IN [err |-> IF r.bad THEN UnmarshalTypeError ELSE nil, val |-> r.val]

(***************************************************************************)
(* Signing and request construction.                                       *)
(***************************************************************************)
\* HMAC-SHA256 in hex, as an ideal keyed hash of its two arguments.
computeHmac256(message, secret) == <<"hmac-sha256", secret, message>>

\* headers signing the full URL, as the first versions of the client did.
headersFullURL(key, secret, method, uri, body) ==
  LET timestamp == ToString(now)
      message == timestamp \o method \o URL \o uri \o body
      signature == computeHmac256(message, secret)
  IN ("Content-Type" :> "application/json")
     @@ ("ACCESS-KEY" :> key)
     @@ ("ACCESS-TIMESTAMP" :> timestamp)
     @@ ("ACCESS-SIGN" :> signature)

\* headers leaving the body out of the signed message.
headersNoBody(key, secret, method, uri, body) ==
  LET timestamp == ToString(now)
      message == timestamp \o method \o uri
      signature == computeHmac256(message, secret)
  IN ("Content-Type" :> "application/json")
     @@ ("ACCESS-KEY" :> key)
     @@ ("ACCESS-TIMESTAMP" :> timestamp)
     @@ ("ACCESS-SIGN" :> signature)

\* headers reads the clock, signs timestamp+method+uri+body and returns the
\* four headers.
headers(key, secret, method, uri, body) ==
  LET timestamp == ToString(now)
      message == timestamp \o method \o uri \o body
      signature == computeHmac256(message, secret)
  IN ("Content-Type" :> "application/json")
     @@ ("ACCESS-KEY" :> key)
     @@ ("ACCESS-TIMESTAMP" :> timestamp)
     @@ ("ACCESS-SIGN" :> signature)

\* http.NewRequest(method, url, body): a request without headers.
NewRequest(method, url, body) ==
  [Method |-> method, URL |-> url, Body |-> body, Header |-> <<>>]

\* textproto.CanonicalMIMEHeaderKey, which Header.Add applies to the name.
CanonicalMIMEHeaderKey(name) ==
  CASE name = "Content-Type" -> "Content-Type"
    [] name = "ACCESS-KEY" -> "Access-Key"
    [] name = "ACCESS-TIMESTAMP" -> "Access-Timestamp"
    [] name = "ACCESS-SIGN" -> "Access-Sign"

\* setHeaders adds every entry of the map to the request's header.
setHeaders(req, h) ==
  [req EXCEPT !.Header =
     [ck \in DOMAIN req.Header \cup {CanonicalMIMEHeaderKey(n) : n \in DOMAIN h} |->
        (IF ck \in DOMAIN req.Header THEN req.Header[ck] ELSE <<>>)
        \o (IF \E n \in DOMAIN h : CanonicalMIMEHeaderKey(n) = ck
            THEN <<h[CHOOSE n \in DOMAIN h : CanonicalMIMEHeaderKey(n) = ck]>>
            ELSE <<>>)]]

(***************************************************************************)
(* The client and its calls.                                               *)
(***************************************************************************)
\* New(key, secret): the credentials and a default http.Client (Timeout 0,
\* which net/http reads as "no timeout").
New(key, secret) ==
  [key |-> key, secret |-> secret, client |-> [Timeout |-> 0]]

\* The locals of a typed call that has not started.
IdleCall ==
  [pc |-> "idle", op |-> "", order |-> Zero(Order), method |-> "",
   endpoint |-> "", data |-> EmptyBytes, headers |-> <<>>,
   req |-> NewRequest("", "", EmptyBytes), resp |-> EmptyBytes,
   out |-> <<>>, err |-> nil, nDo |-> 0, nUnmarshal |-> 0]

\* The type a typed call decodes its response into.
ResultType(op) ==
  CASE op = "GetOrderBook" -> OrderBook
    [] op = "GetBalance" -> AssetBalance
    [] op = "GetTicker" -> Ticker
    [] op = "NewOrder" -> Order

\* First line of doGetRequest and doPostRequest: the headers are computed
\* from the call's own method, endpoint and body, then doRequest is entered.
Signed(op, order, out, method, endpoint, body) ==
  [IdleCall EXCEPT
     !.pc = "doRequest", !.op = op, !.order = order, !.out = out,
     !.method = method, !.endpoint = endpoint, !.data = body,
     !.headers = headers(api.key, api.secret, method, endpoint, Text(body))]

doGetRequest(op, endpoint, body) ==
  Signed(op, Zero(Order), Zero(ResultType(op)), "GET", endpoint, body)

doPostRequest(op, order, out, endpoint, body) ==
  Signed(op, order, out, "POST", endpoint, body)

GetOrderBook(c) ==
  /\ calls[c].pc = "idle"
  /\ calls' = [calls EXCEPT ![c] =
                 doGetRequest("GetOrderBook", "/v1/getboard", EmptyBytes)]
  /\ UNCHANGED <<api, now, signed>>

GetBalance(c) ==
  /\ calls[c].pc = "idle"
  /\ calls' = [calls EXCEPT ![c] =
                 doGetRequest("GetBalance", "/v1/me/getbalance", EmptyBytes)]
  /\ UNCHANGED <<api, now, signed>>

GetTicker(c) ==
  /\ calls[c].pc = "idle"
  /\ calls' = [calls EXCEPT ![c] =
                 doGetRequest("GetTicker", "/v1/getticker", EmptyBytes)]
  /\ UNCHANGED <<api, now, signed>>

\* NewOrder defaulting the expiry only when it is negative.
NewOrderStartNegativeOnly(order) ==
  LET d1 == IF order.MinuteToExpires < 0
            THEN [order EXCEPT !.MinuteToExpires = minuteToExpire]
            ELSE order
      newOrder == IF d1.TimeInForce = ""
                  THEN [d1 EXCEPT !.TimeInForce = timeInForce]
                  ELSE d1
      m == Marshal(Order, newOrder)
  IN IF m.err # nil
     THEN [IdleCall EXCEPT !.pc = "done", !.op = "NewOrder", !.order = order,
                           !.out = newOrder, !.err = m.err]
     ELSE doPostRequest("NewOrder", order, newOrder,
                        "/v1/me/sendchildorder", m.data)

\* NewOrder up to the call of doPostRequest: the defaults, json.Marshal (whose
\* failure returns at once) and the signing.
NewOrderStart(order) ==
  LET d1 == IF order.MinuteToExpires <= 0
            THEN [order EXCEPT !.MinuteToExpires = minuteToExpire]
            ELSE order
      newOrder == IF d1.TimeInForce = ""
                  THEN [d1 EXCEPT !.TimeInForce = timeInForce]
                  ELSE d1
      m == Marshal(Order, newOrder)
  IN IF m.err # nil
     THEN [IdleCall EXCEPT !.pc = "done", !.op = "NewOrder", !.order = order,
                           !.out = newOrder, !.err = m.err]
     ELSE doPostRequest("NewOrder", order, newOrder,
                        "/v1/me/sendchildorder", m.data)

NewOrder(c, order) ==
  /\ calls[c].pc = "idle"
  /\ calls' = [calls EXCEPT ![c] = NewOrderStart(order)]
  /\ UNCHANGED <<api, now, signed>>

\* doRequest attaching the header set of whichever call signed first, as a
\* header map kept in one shared place would.
BuildRequestShared(call) ==
  [call EXCEPT
     !.pc = "Do",
     !.req = setHeaders(NewRequest(call.method, URL \o call.endpoint, call.data),
                        calls[CHOOSE d \in DOMAIN calls :
                                /\ calls[d].pc # "idle"
                                /\ \A e \in DOMAIN calls :
                                     calls[e].pc # "idle" => d <= e].headers)]

\* doRequest up to the send: the request is built for URL+endpoint with the
\* call's body, and the headers computed earlier are attached.
BuildRequest(call) ==
  [call EXCEPT
     !.pc = "Do",
     !.req = setHeaders(NewRequest(call.method, URL \o call.endpoint, call.data),
                        call.headers)]

doRequest(c) ==
  /\ calls[c].pc = "doRequest"
  /\ calls' = [calls EXCEPT ![c] = BuildRequest(calls[c])]
  /\ UNCHANGED <<api, now, signed>>

\* api.client.Do(req): the request is handed to the transport, once.
Send(call) == [call EXCEPT !.pc = "inflight", !.nDo = @ + 1]

clientDo(c) ==
  /\ calls[c].pc = "Do"
  /\ calls' = [calls EXCEPT ![c] = Send(calls[c])]
  /\ UNCHANGED <<api, now, signed>>

\* A failed send answered by sending again.
DoFailsRetry(call, cause) == [call EXCEPT !.pc = "inflight", !.nDo = @ + 1]

\* The transport fails (DNS, connection, reset): Do returns an error and
\* doRequest wraps it; the typed call returns it.
DoFails(call, cause) ==
  [call EXCEPT !.pc = "done", !.err = requestError(cause)]

TransportFail(c, cause) ==
  /\ calls[c].pc = "inflight"
  /\ calls' = [calls EXCEPT ![c] = DoFails(calls[c], cause)]
  /\ UNCHANGED <<api, now, signed>>

\* The exchange answers: Do returns a response whose body is still to be read.
\* The status code is not looked at.
Respond(c) ==
  /\ calls[c].pc = "inflight"
  /\ calls' = [calls EXCEPT ![c].pc = "ReadAll"]
  /\ UNCHANGED <<api, now, signed>>

\* ioutil.ReadAll(resp.Body) returns the whole body.
ReadAll(c, body) ==
  /\ calls[c].pc = "ReadAll"
  /\ calls' = [calls EXCEPT ![c].pc = "Unmarshal", ![c].resp = body]
  /\ UNCHANGED <<api, now, signed>>

\* ioutil.ReadAll(resp.Body) fails.
ReadAllFails(call, cause) ==
  [call EXCEPT !.pc = "done", !.err = requestError(cause)]

ReadAllFail(c, cause) ==
  /\ calls[c].pc = "ReadAll"
  /\ calls' = [calls EXCEPT ![c] = ReadAllFails(calls[c], cause)]
  /\ UNCHANGED <<api, now, signed>>

\* json.Unmarshal(resp, data) in doGetRequest and doPostRequest, and the rest
\* of the typed call: a decode error is returned as it is; NewOrder then turns
\* a non-empty ErrorMessage of the decoded order into an error.
Decode(call) ==
  LET r == Unmarshal(call.resp, ResultType(call.op), call.out)
  IN [call EXCEPT
        !.pc = "done", !.nUnmarshal = @ + 1, !.out = r.val,
        !.err = IF r.err # nil THEN r.err
                ELSE IF call.op = "NewOrder" /\ r.val.ErrorMessage # ""
                     THEN errorsNew(r.val.ErrorMessage)
                     ELSE nil]

UnmarshalReturn(c) ==
  /\ calls[c].pc = "Unmarshal"
  /\ calls' = [calls EXCEPT ![c] = Decode(calls[c])]
  /\ UNCHANGED <<api, now, signed>>

\* The caller takes the result; the slot is free for its next call.
Return(c) ==
  /\ calls[c].pc = "done"
  /\ calls' = [calls EXCEPT ![c] = IdleCall]
  /\ UNCHANGED <<api, now, signed>>

\* time.Now() moves on by a second.
Tick ==
  /\ now < ClockStart + MaxTicks
  /\ now' = now + 1
  /\ UNCHANGED <<api, calls, signed>>

(***************************************************************************)
(* Inputs.                                                                 *)
(***************************************************************************)
Keys == {"KEY", "wrong_key"}
Secrets == {"SECRET", "wrong_password"}

BaseOrder ==
  [Zero(Order) EXCEPT !.ProductCode = "BTC_JPY", !.ChildOrderType = "LIMIT",
                      !.Side = "BUY", !.Price = F(100), !.Size = F(1)]

Orders ==
  {[BaseOrder EXCEPT !.MinuteToExpires = m, !.TimeInForce = t, !.Price = p,
                     !.ErrorMessage = e] :
     m \in {-1, 0, 43200}, t \in {"", "IOC"}, p \in {F(100), NaN},
     e \in {"", "Insufficient funds"}}

ErrorPayload ==
  Obj(<< <<"status", Num(-500)>>, <<"error_message", Str("Key not found")>>,
         <<"data", Null>> >>)

Level(price, size) == Obj(<< <<"price", Num(price)>>, <<"size", Num(size)>> >>)

Bodies ==
  { Malformed, EmptyBytes, Null, ErrorPayload,
    Arr(<<>>),
    Arr(<< Obj(<< <<"currency_code", Str("JPY")>>, <<"amount", Num(1000)>>,
                  <<"available", Num(900)>> >>),
           Obj(<< <<"currency_code", Str("BTC")>>, <<"amount", Num(2)>>,
                  <<"available", Num(1)>> >>) >>),
    Obj(<< <<"mid_price", Num(100)>>,
           <<"bids", Arr(<<Level(99, 2), Level(98, 1)>>)>>,
           <<"asks", Arr(<<Level(101, 1), Level(102, 3)>>)>> >>),
    Obj(<< <<"product_code", Str("BTC_JPY")>>, <<"tick_id", Num(7)>>,
           <<"best_bid", Num(99)>>, <<"best_ask", Num(101)>>,
           <<"ltp", Num(100)>> >>),
    Obj(<< <<"tick_id", Str("seven")>>, <<"mid_price", Str("high")>>,
           <<"status", Str("ok")>> >>),
    Obj(<< <<"child_order_acceptance_id", Str("JRF1")>> >>),
    Obj(<< <<"child_order_acceptance_id", Str("JRF1")>>,
           <<"error_message", Str("")>> >>),
    Obj(<< <<"status", Num(-200)>>,
           <<"error_message", Str("Insufficient funds")>> >>) }

Causes == {"dial tcp: connection refused", "unexpected EOF"}

(***************************************************************************)
(* One caller, one call at a time, every input.                            *)
(***************************************************************************)
Init ==
  /\ api \in {New(k, s) : k \in Keys, s \in Secrets}
  /\ now = ClockStart
  /\ calls = [c \in {1} |-> IdleCall]
  /\ signed = {}

Next ==
  \/ \E c \in DOMAIN calls : GetOrderBook(c)
  \/ \E c \in DOMAIN calls : GetBalance(c)
  \/ \E c \in DOMAIN calls : GetTicker(c)
  \/ \E c \in DOMAIN calls : \E order \in Orders : NewOrder(c, order)
  \/ \E c \in DOMAIN calls : doRequest(c)
  \/ \E c \in DOMAIN calls : clientDo(c)
  \/ \E c \in DOMAIN calls : \E cause \in Causes : TransportFail(c, cause)
  \/ \E c \in DOMAIN calls : Respond(c)
  \/ \E c \in DOMAIN calls : \E body \in Bodies : ReadAll(c, body)
  \/ \E c \in DOMAIN calls : \E cause \in Causes : ReadAllFail(c, cause)
  \/ \E c \in DOMAIN calls : UnmarshalReturn(c)
  \/ \E c \in DOMAIN calls : Return(c)
  \/ Tick

Spec == Init /\ [][Next]_vars

(***************************************************************************)
(* The same client under a scheduler that runs the client's own code to    *)
(* the next blocking point.  The exchange, the network and the caller are  *)
(* under no obligation: http.Client.Timeout is 0, so nothing in the client *)
(* ends a wait.                                                            *)
(***************************************************************************)
ClientStep ==
  \E c \in DOMAIN calls : doRequest(c) \/ clientDo(c) \/ UnmarshalReturn(c)

LiveSpec == Init /\ [][Next]_vars /\ WF_vars(ClientStep)

(***************************************************************************)
(* Several callers share one client.                                       *)
(***************************************************************************)
ConcOrders == {[BaseOrder EXCEPT !.TimeInForce = "IOC"]}

ConcBodies == {ErrorPayload}

ConcCauses == {"unexpected EOF"}

ConcInit ==
  /\ api = New("KEY", "SECRET")
  /\ now = ClockStart
  /\ calls = [c \in 1 .. NumCalls |-> IdleCall]
  /\ signed = {}

ConcNext ==
  \/ \E c \in DOMAIN calls : GetOrderBook(c)
  \/ \E c \in DOMAIN calls : GetBalance(c)
  \/ \E c \in DOMAIN calls : GetTicker(c)
  \/ \E c \in DOMAIN calls : \E order \in ConcOrders : NewOrder(c, order)
  \/ \E c \in DOMAIN calls : doRequest(c)
  \/ \E c \in DOMAIN calls : clientDo(c)
  \/ \E c \in DOMAIN calls : \E cause \in ConcCauses : TransportFail(c, cause)
  \/ \E c \in DOMAIN calls : Respond(c)
  \/ \E c \in DOMAIN calls : \E body \in ConcBodies : ReadAll(c, body)
  \/ \E c \in DOMAIN calls : \E cause \in ConcCauses : ReadAllFail(c, cause)
  \/ \E c \in DOMAIN calls : UnmarshalReturn(c)
  \/ \E c \in DOMAIN calls : Return(c)
  \/ Tick

ConcSpec == ConcInit /\ [][ConcNext]_vars

(***************************************************************************)
(* headers as a function of its arguments, at one instant: header sets are *)
(* computed for arbitrary arguments and kept side by side.                 *)
(***************************************************************************)
SigMethods == {"GET", "POST"}
SigUris == {"/v1/me/send", "/v1/me/sendchildorder"}
SigBodies == {"", "childorder", "{}"}

Sign(method, uri, body, secret) ==
  /\ Cardinality(signed) < MaxSigned
  /\ signed' = signed \cup
       {[method |-> method, uri |-> uri, body |-> body, secret |-> secret,
         headers |-> headers(api.key, secret, method, uri, body)]}
  /\ UNCHANGED <<api, now, calls>>

SigNext ==
  \E method \in SigMethods, uri \in SigUris, body \in SigBodies,
     secret \in Secrets : Sign(method, uri, body, secret)

SigSpec == Init /\ [][SigNext]_vars

(***************************************************************************)
(* Vocabulary of the properties.                                           *)
(***************************************************************************)
HasMember(doc, name) ==
  doc.t = "object" /\ \E i \in DOMAIN doc.members : doc.members[i][1] = name

\* The value of a member an object holds once.
Member(doc, name) ==
  doc.members[CHOOSE i \in DOMAIN doc.members : doc.members[i][1] = name][2]

MemberNames(doc) == [i \in DOMAIN doc.members |-> doc.members[i][1]]

\* The request was handed to the transport.
WasSent(call) == call.nDo > 0

\* The typed call returned after json.Unmarshal ran on a body read in full.
Decoded(call) == call.pc = "done" /\ call.nUnmarshal > 0

IsDecodeError(err) ==
  err.type \in {"*json.SyntaxError", "*json.UnmarshalTypeError"}

Endpoints ==
  {"/v1/getboard", "/v1/me/getbalance", "/v1/getticker", "/v1/me/sendchildorder"}

(***************************************************************************)
(* C1.  The body NewOrder sends carries minute_to_expire = 525600 when the *)
(* caller's expiry is <= 0 and the caller's expiry otherwise, and          *)
(* time_in_force = "GTC" when the caller's is empty and the caller's       *)
(* otherwise; each default is applied whatever the other field holds, and  *)
(* every other field is sent as the caller gave it.                        *)
(***************************************************************************)
C1_NewOrderDefaults ==
  \A c \in DOMAIN calls :
    LET call == calls[c]
        o == call.order
        b == call.req.Body
    IN (call.op = "NewOrder" /\ WasSent(call)) =>
         /\ b.t = "object"
         /\ MemberNames(b) =
              << "child_order_acceptance_id", "product_code", "child_order_type",
                 "side", "price", "size", "minute_to_expire", "time_in_force",
                 "status", "error_message" >>
         /\ Member(b, "minute_to_expire") =
              Num(IF o.MinuteToExpires <= 0 THEN 525600 ELSE o.MinuteToExpires)
         /\ Member(b, "time_in_force") =
              Str(IF o.TimeInForce = "" THEN "GTC" ELSE o.TimeInForce)
         /\ Member(b, "child_order_acceptance_id") = Str(o.ChildOrderAcceptanceID)
         /\ Member(b, "product_code") = Str(o.ProductCode)
         /\ Member(b, "child_order_type") = Str(o.ChildOrderType)
         /\ Member(b, "side") = Str(o.Side)
         /\ Member(b, "price") = Num(o.Price.v)
         /\ Member(b, "size") = Num(o.Size.v)
         /\ Member(b, "status") = Num(o.Status)
         /\ Member(b, "error_message") = Str(o.ErrorMessage)

\* An order with expiry 0 and an explicit time-in-force has been sent: only
\* the expiry default applies.
C1_Witness ==
  \E c \in DOMAIN calls :
    /\ calls[c].op = "NewOrder" /\ WasSent(calls[c])
    /\ calls[c].order.MinuteToExpires = 0
    /\ calls[c].order.TimeInForce = "IOC"

(***************************************************************************)
(* C2.  When NewOrder's round trip and decode succeed: if the response     *)
(* carries a non-empty error_message, NewOrder returns an error with       *)
(* exactly that message; if the response's error_message is empty or       *)
(* absent, NewOrder returns no error.                                      *)
(***************************************************************************)
ResponseErrorMessage(doc) ==
  IF HasMember(doc, "error_message") /\ Member(doc, "error_message").t = "string"
  THEN Member(doc, "error_message").s
  ELSE ""

C2_ExchangeError ==
  \A c \in DOMAIN calls :
    LET call == calls[c]
        msg == ResponseErrorMessage(call.resp)
    IN (call.op = "NewOrder" /\ Decoded(call) /\ ~IsDecodeError(call.err)) =>
         /\ msg # "" => call.err = errorsNew(msg)
         /\ msg = "" => call.err = nil

(***************************************************************************)
(* C3.  A typed call whose send or body read fails returns the request     *)
(* error that wraps the cause, json.Unmarshal is not run, and the          *)
(* transport was invoked exactly once; no call invokes it twice.           *)
(***************************************************************************)
C3_RequestErrorNoRetry ==
  /\ [](\A c \in DOMAIN calls : calls[c].nDo <= 1)
  /\ [][\A c \in DOMAIN calls :
          (calls[c].pc \in {"inflight", "ReadAll"} /\ calls'[c].pc = "done") =>
            /\ calls'[c].nDo = 1
            /\ calls'[c].nUnmarshal = 0
            /\ \E cause \in Causes :
                 calls'[c].err =
                   [type |-> "*errors.errorString",
                    msg |-> "Could not execute request! (" \o cause \o ")"]]_vars

\* A call has returned after its transport failed.
C3_Witness ==
  \E c \in DOMAIN calls :
    /\ calls[c].pc = "done" /\ calls[c].nDo = 1 /\ calls[c].nUnmarshal = 0
    /\ calls[c].op = "GetTicker"
    /\ calls[c].err.msg = "Could not execute request! (dial tcp: connection refused)"

Signature(e) == e.headers["ACCESS-SIGN"]

SameArguments(a, b) ==
  a.method = b.method /\ a.uri = b.uri /\ a.body = b.body /\ a.secret = b.secret

C5_NoCollision ==
  \A a, b \in signed : ~SameArguments(a, b) => Signature(a) # Signature(b)

(***************************************************************************)
(* C5, amended.  At one instant the signature is a function of the         *)
(* arguments; it changes when exactly one of method, path, body, secret    *)
(* changes; and two tuples get the same signature exactly when their       *)
(* secrets are equal and their concatenations method ++ path ++ body are   *)
(* equal.                                                                  *)
(***************************************************************************)
Differences(a, b) ==
  Cardinality({f \in {"method", "uri", "body", "secret"} : a[f] # b[f]})

C5_SignatureFollowsMessage ==
  \A a, b \in signed :
    /\ Differences(a, b) = 1 => Signature(a) # Signature(b)
    /\ Signature(a) = Signature(b) <=>
         /\ a.secret = b.secret
         /\ a.method \o a.uri \o a.body = b.method \o b.uri \o b.body

\* Two tuples that differ in path and body have been signed and share one
\* concatenation.
C5_Witness ==
  \E a, b \in signed :
    /\ a.secret = b.secret /\ a.method = b.method
    /\ a.uri # b.uri /\ a.body # b.body
    /\ a.uri \o a.body = b.uri \o b.body

(***************************************************************************)
(* C6.  GetBalance returns an error whenever the body it read is not a     *)
(* list of balances: a JSON object (the exchange's error payload), some    *)
(* other JSON value that is no array, or no JSON at all.  (The bare JSON    *)
(* null is the one body besides an array that decodes: to the nil list.)   *)
(***************************************************************************)
C6_GetBalanceRejected ==
  \A c \in DOMAIN calls :
    (calls[c].op = "GetBalance" /\ Decoded(calls[c])
       /\ calls[c].resp.t \notin {"array", "null"})
      => calls[c].err # nil

\* GetBalance has returned on the exchange's error payload.
C6_Witness ==
  \E c \in DOMAIN calls :
    /\ calls[c].op = "GetBalance" /\ Decoded(calls[c])
    /\ calls[c].resp = ErrorPayload

(***************************************************************************)
(* C7.  A typed call whose body was read but is not JSON, or does not have *)
(* the shape of the result, returns a decode error.  A body has not the    *)
(* shape of a struct when it is no object, or an object none of whose      *)
(* members is a field of the struct; of a list when it is no array.        *)
(***************************************************************************)
NotJSON(doc) == doc.t \in {"empty", "malformed"}

ShapeMismatch(ty, doc) ==
  CASE ty.k = "slice" -> doc.t \notin {"array", "null"}
    [] ty.k = "struct" ->
         \/ doc.t \notin {"object", "null"}
         \/ /\ doc.t = "object"
            /\ \A i \in DOMAIN doc.members :
                 \A j \in DOMAIN ty.fields : doc.members[i][1] # ty.fields[j].json

C7_DecodeError ==
  \A c \in DOMAIN calls :
    LET call == calls[c]
    IN (Decoded(call) /\ (NotJSON(call.resp)
                            \/ ShapeMismatch(ResultType(call.op), call.resp)))
         => IsDecodeError(call.err)

(***************************************************************************)
(* C8.  The timestamp a request carries is the time at which it is handed  *)
(* to the transport.                                                       *)
(***************************************************************************)
C8_TimestampAtSend ==
  [][\A c \in DOMAIN calls :
       (calls[c].pc = "Do" /\ calls'[c].pc = "inflight") =>
         calls[c].req.Header["Access-Timestamp"] = <<ToString(now)>>]_vars

(***************************************************************************)
(* C9.  A call waiting for the exchange's answer or for the rest of the    *)
(* body eventually returns.                                                *)
(***************************************************************************)
C9_CallReturns ==
  (calls[1].pc \in {"inflight", "ReadAll"}) ~> (calls[1].pc = "done")

(***************************************************************************)
(* C10.  Under any interleaving, the header set of a call is the one       *)
(* computed from its own method, endpoint and body with the client's       *)
(* credentials, the request it builds is its own and carries exactly that  *)
(* header set, and the client still holds what New was given.              *)
(***************************************************************************)
OwnHeaders(call) ==
  \E t \in ClockStart .. now :
    call.headers =
      ("Content-Type" :> "application/json")
      @@ ("ACCESS-KEY" :> "KEY")
      @@ ("ACCESS-TIMESTAMP" :> ToString(t))
      @@ ("ACCESS-SIGN" :>
            computeHmac256(ToString(t) \o call.method \o call.endpoint
                             \o Text(call.data), "SECRET"))

C10_OwnHeadersPerCall ==
  /\ api = [key |-> "KEY", secret |-> "SECRET", client |-> [Timeout |-> 0]]
  /\ \A c \in DOMAIN calls :
       LET call == calls[c]
       IN /\ call.pc # "idle" /\ call.err.type # "*json.UnsupportedValueError"
             => OwnHeaders(call)
          /\ call.pc \in {"Do", "inflight", "ReadAll", "Unmarshal"} \/ WasSent(call) =>
               /\ call.req.Method = call.method
               /\ call.req.URL = "https://api.bitflyer.jp" \o call.endpoint
               /\ call.req.Body = call.data
               /\ call.req.Header =
                    ("Content-Type" :> <<call.headers["Content-Type"]>>)
                    @@ ("Access-Key" :> <<call.headers["ACCESS-KEY"]>>)
                    @@ ("Access-Timestamp" :> <<call.headers["ACCESS-TIMESTAMP"]>>)
                    @@ ("Access-Sign" :> <<call.headers["ACCESS-SIGN"]>>)

\* Two calls with different methods and timestamps are in flight together.
C10_Witness ==
  \E c, d \in DOMAIN calls :
    /\ calls[c].pc = "inflight" /\ calls[d].pc = "inflight"
    /\ calls[c].method = "GET" /\ calls[d].method = "POST"
    /\ calls[c].headers["ACCESS-TIMESTAMP"] # calls[d].headers["ACCESS-TIMESTAMP"]

====
